---- MODULE Spec2Model ----
(***************************************************************************)
(* Model of scripts/convert_tiff_to_png.py: a sequential batch converter   *)
(* that walks IN_DIR, converts every *.tif / *.tiff file to a PNG in the   *)
(* mirrored place under OUT_DIR and prints a tally.                        *)
(*                                                                         *)
(* A path is a sequence of names; a name is a record [stem, ext] (the text *)
(* before and after the last dot, ext = "" when there is no suffix), which *)
(* is what Path.suffix / Path.with_suffix work on.  The filesystem is a    *)
(* function from the paths that exist to their nodes.                      *)
(***************************************************************************)
EXTENDS Integers, Sequences, FiniteSets, TLC

VARIABLES fs, SKIP_EXISTING, pc, run, todo, src, dst, im, err,
          count_total, count_done, count_skipped, count_failed,
          out, status, reports

vars == <<fs, SKIP_EXISTING, pc, run, todo, src, dst, im, err,
          count_total, count_done, count_skipped, count_failed,
          out, status, reports>>

counters == <<count_total, count_done, count_skipped, count_failed>>

\* ----------------------------------------------------------------- bounds
\* largest number of entries placed under the input root (their parent
\* directories come on top)
MaxEntries == 2
\* number of consecutive invocations of main() on the same filesystem
MaxRuns == 2

\* ------------------------------------------------------------------ paths
N(s, e) == [stem |-> s, ext |-> e]

IN_DIR == <<N("public", ""), N("patterns", "")>>

OUT_DIR == <<N("public", ""), N("patterns_png", "")>>

\* str.lower() on the suffixes that occur
Lower(e) ==
    CASE e = "TIF" -> "tif"
      [] e = "Tif" -> "tif"
      [] e = "TIFF" -> "tiff"
      [] e = "TiFf" -> "tiff"
      [] e = "PNG" -> "png"
      [] OTHER -> e

\* Path.suffix: the extension of the last component
Suffix(p) == p[Len(p)].ext

\* Path.parent
Parent(p) == SubSeq(p, 1, Len(p) - 1)

\* p lies strictly below base
Under(p, base) ==
    /\ Len(p) > Len(base)
    /\ SubSeq(p, 1, Len(base)) = base

\* Path.relative_to(base), for a path below base
RelativeTo(p, base) == SubSeq(p, Len(base) + 1, Len(p))

\* Path.with_suffix(e): only the last component changes
WithSuffix(p, e) == [p EXCEPT ![Len(p)] = N(p[Len(p)].stem, e)]

\* the mutated destination forgets the sub-directories of the source
DestOfFlat(s) == OUT_DIR \o <<N(s[Len(s)].stem, "png")>>

\* dst = OUT_DIR / src.relative_to(IN_DIR).with_suffix(".png")
DestOf(s) == OUT_DIR \o WithSuffix(RelativeTo(s, IN_DIR), "png")

\* the path itself and all its ancestors
Prefixes(p) == {SubSeq(p, 1, k) : k \in 1..Len(p)}

\* ------------------------------------------------------------- filesystem
\* what Pillow finds in a source file: its colour mode, whether seek(0)
\* works, and the step of the conversion that raises (if any)
NoImg == [mode |-> "", seekOk |-> TRUE, fault |-> "none"]

ImgProfiles ==
    { [mode |-> "RGB",  seekOk |-> TRUE,  fault |-> "none"],
      [mode |-> "P",    seekOk |-> FALSE, fault |-> "none"],
      [mode |-> "",     seekOk |-> TRUE,  fault |-> "open"],
      [mode |-> "L",    seekOk |-> TRUE,  fault |-> "convert"],
      [mode |-> "RGBA", seekOk |-> FALSE, fault |-> "save"] }

DirNode == [kind |-> "dir", tag |-> "", img |-> NoImg, from |-> <<>>, gen |-> 0]

FileNode(tag, img, from, gen) ==
    [kind |-> "file", tag |-> tag, img |-> img, from |-> from, gen |-> gen]

OtherNode == [kind |-> "other", tag |-> "", img |-> NoImg, from |-> <<>>, gen |-> 0]

Exists(f, p) == p \in DOMAIN f

IsFile(f, p) == p \in DOMAIN f /\ f[p].kind = "file"

IsDir(f, p) == p \in DOMAIN f /\ f[p].kind = "dir"

\* a set of (path, node) items is a tree: one node per path, nothing below a
\* node that is not a directory
Consistent(items) ==
    \A i \in items : \A j \in items :
        /\ (i.path = j.path => i = j)
        /\ (i.path \in Prefixes(Parent(j.path)) => i.node.kind = "dir")

\* the filesystem holding the items and the directories leading to them
TreeOf(items) ==
    LET paths == UNION {Prefixes(i.path) : i \in items}
    IN  [p \in paths |->
            IF \E i \in items : i.path = p
            THEN (CHOOSE i \in items : i.path = p).node
            ELSE DirNode]

Item(p, n) == [path |-> p, node |-> n]

\* entries that may lie under the input root
InItems ==
    LET tiffs == { IN_DIR \o <<N("img", "tif")>>,
                   IN_DIR \o <<N("img", "TIFF")>>,
                   IN_DIR \o <<N("img", "png"), N("img", "TiFf")>> }
    IN  { Item(p, FileNode("tiff", i, <<>>, 0)) : p \in tiffs, i \in ImgProfiles }
        \cup { Item(IN_DIR \o <<N("dir", "tif")>>, DirNode),
               Item(IN_DIR \o <<N("pipe", "tiff")>>, OtherNode),
               Item(IN_DIR \o <<N("notes", "txt")>>, FileNode("text", NoImg, <<>>, 0)),
               Item(IN_DIR \o <<N("tif", "")>>, FileNode("tiff", CHOOSE i \in ImgProfiles : i.mode = "RGB", <<>>, 0)) }

\* what may already lie under the output root
OutItems ==
    { Item(OUT_DIR \o <<N("img", "png")>>, FileNode("sentinel", NoImg, <<>>, 0)),
      Item(OUT_DIR \o <<N("img", "png")>>, DirNode),
      Item(OUT_DIR \o <<N("img", "png"), N("img", "png")>>, FileNode("sentinel", NoImg, <<>>, 0)),
      Item(OUT_DIR, FileNode("sentinel", NoImg, <<>>, 0)) }

\* the input root is a directory, a regular file, or missing
RootItems ==
    { {Item(IN_DIR, DirNode)},
      {Item(IN_DIR, FileNode("text", NoImg, <<>>, 0))},
      {Item(Parent(IN_DIR), DirNode)} }

\* ------------------------------------------------------------ the program
Init ==
    /\ \E root \in RootItems :
       \E ins \in SUBSET InItems :
       \E outs \in SUBSET OutItems :
          /\ Cardinality(ins) <= MaxEntries
          /\ Cardinality(outs) <= 1
          /\ Consistent(root \cup ins \cup outs)
          /\ fs = TreeOf(root \cup ins \cup outs)
    /\ SKIP_EXISTING \in BOOLEAN
    /\ pc = "main"
    /\ run = 1
    /\ todo = {}
    /\ src = <<>>
    /\ dst = <<>>
    /\ im = ""
    /\ err = ""
    /\ count_total = 0
    /\ count_done = 0
    /\ count_skipped = 0
    /\ count_failed = 0
    /\ out = <<>>
    /\ status = "running"
    /\ reports = <<>>

Line(tag, s, d, detail, nums) ==
    [tag |-> tag, src |-> s, dst |-> d, detail |-> detail, nums |-> nums]

\* IN_DIR.rglob("*"): every path below the root; nothing when the root is
\* not a directory
RGlob(f, root) ==
    IF IsDir(f, root) THEN {p \in DOMAIN f : Under(p, root)} ELSE {}

\* main, lines 33-34: the input root is missing
MainFatal ==
    /\ pc = "main"
    /\ ~Exists(fs, IN_DIR)
    /\ out' = Append(out, Line("ERROR", IN_DIR, <<>>, "Input dir not found", <<>>))
    /\ status' = "fatal"
    /\ pc' = "exit"
    /\ UNCHANGED <<fs, SKIP_EXISTING, run, todo, src, dst, im, err, counters, reports>>

\* main, lines 33-41: the counters start at zero and the walk begins
MainStart ==
    /\ pc = "main"
    /\ Exists(fs, IN_DIR)
    /\ count_total' = 0
    /\ count_done' = 0
    /\ count_skipped' = 0
    /\ count_failed' = 0
    /\ todo' = RGlob(fs, IN_DIR)
    /\ pc' = "loop"
    /\ UNCHANGED <<fs, SKIP_EXISTING, run, src, dst, im, err, out, status, reports>>

\* the mutated filter compares the suffix as it is spelled
IsCandidateCaseSensitive(f, p) ==
    /\ IsFile(f, p)
    /\ Suffix(p) \in {"tif", "tiff"}

\* lines 42-45: a regular file whose lower-cased suffix is .tif or .tiff
IsCandidate(f, p) ==
    /\ IsFile(f, p)
    /\ Lower(Suffix(p)) \in {"tif", "tiff"}

\* lines 41-45: the next entry is not a candidate
Ignore ==
    /\ pc = "loop"
    /\ \E p \in todo :
        /\ ~IsCandidate(fs, p)
        /\ todo' = todo \ {p}
    /\ UNCHANGED <<fs, SKIP_EXISTING, pc, run, src, dst, im, err, counters, out, status, reports>>

\* lines 41-51: the next entry is a candidate
Take ==
    /\ pc = "loop"
    /\ \E p \in todo :
        /\ IsCandidate(fs, p)
        /\ todo' = todo \ {p}
        /\ src' = p
        /\ dst' = DestOf(p)
    /\ count_total' = count_total + 1
    /\ pc' = "check"
    /\ UNCHANGED <<fs, SKIP_EXISTING, run, im, err, count_done, count_skipped, count_failed, out, status, reports>>

\* the mutated test never skips
ShouldSkipNever(f, d) == FALSE

\* line 53: SKIP_EXISTING and dst.exists()
ShouldSkip(f, d) == SKIP_EXISTING /\ Exists(f, d)

\* the mutated branch leaves the candidate out of the tally
SkipUncounted ==
    /\ pc = "check"
    /\ ShouldSkip(fs, dst)
    /\ pc' = "loop"
    /\ UNCHANGED <<fs, SKIP_EXISTING, run, todo, src, dst, im, err, counters, out, status, reports>>

\* lines 53-55
Skip ==
    /\ pc = "check"
    /\ ShouldSkip(fs, dst)
    /\ count_skipped' = count_skipped + 1
    /\ pc' = "loop"
    /\ UNCHANGED <<fs, SKIP_EXISTING, run, todo, src, dst, im, err, count_total, count_done, count_failed, out, status, reports>>

\* lines 53, 57-58: convert_one is called
Attempt ==
    /\ pc = "check"
    /\ ~ShouldSkip(fs, dst)
    /\ pc' = "mkdir"
    /\ UNCHANGED <<fs, SKIP_EXISTING, run, todo, src, dst, im, err, counters, out, status, reports>>

\* mkdir(parents=True, exist_ok=True) raises when a component of the chain
\* exists and is not a directory
MkdirFails(f, d) == \E q \in Prefixes(d) : Exists(f, q) /\ ~IsDir(f, q)

\* the missing directories of the chain are created
Mkdirs(f, d) == [q \in DOMAIN f \cup Prefixes(d) |-> IF q \in DOMAIN f THEN f[q] ELSE DirNode]

\* convert_one, line 16
Mkdir ==
    /\ pc = "mkdir"
    /\ IF MkdirFails(fs, Parent(dst))
       THEN /\ err' = "mkdir"
            /\ pc' = "except"
            /\ fs' = fs
       ELSE /\ fs' = Mkdirs(fs, Parent(dst))
            /\ pc' = "open"
            /\ err' = err
    /\ UNCHANGED <<SKIP_EXISTING, run, todo, src, dst, im, counters, out, status, reports>>

\* convert_one, line 19: Image.open(src)
Open ==
    /\ pc = "open"
    /\ IF fs[src].img.fault = "open"
       THEN /\ err' = "open"
            /\ pc' = "except"
            /\ im' = im
       ELSE /\ im' = fs[src].img.mode
            /\ pc' = "seek"
            /\ err' = err
    /\ UNCHANGED <<fs, SKIP_EXISTING, run, todo, src, dst, counters, out, status, reports>>

\* the mutated seek lets its exception escape
SeekRaises(i) == ~i.seekOk

\* convert_one, lines 22-25: an exception of seek(0) is swallowed
SeekPropagates(i) == FALSE

\* convert_one, lines 22-25
Seek ==
    /\ pc = "seek"
    /\ IF SeekPropagates(fs[src].img)
       THEN /\ err' = "seek"
            /\ pc' = "except"
            /\ im' = ""
       ELSE /\ pc' = "mode"
            /\ UNCHANGED <<err, im>>
    /\ UNCHANGED <<fs, SKIP_EXISTING, run, todo, src, dst, counters, out, status, reports>>

\* convert_one, lines 27-28: im.convert("RGB") unless the mode is RGB or RGBA
Mode ==
    /\ pc = "mode"
    /\ IF im \notin {"RGB", "RGBA"}
       THEN IF fs[src].img.fault = "convert"
            THEN /\ err' = "convert"
                 /\ pc' = "except"
                 /\ im' = ""
            ELSE /\ im' = "RGB"
                 /\ pc' = "save"
                 /\ err' = err
       ELSE /\ pc' = "save"
            /\ UNCHANGED <<err, im>>
    /\ UNCHANGED <<fs, SKIP_EXISTING, run, todo, src, dst, counters, out, status, reports>>

\* convert_one, line 30: im.save(dst, format="PNG"); the image is released
\* when the with block is left.  A failed save leaves the destination as
\* it was or leaves a partial file.
Save ==
    /\ pc = "save"
    /\ im' = ""
    /\ IF IsDir(fs, dst) \/ fs[src].img.fault = "save"
       THEN /\ err' = "save"
            /\ pc' = "except"
            /\ \/ fs' = fs
               \/ /\ ~IsDir(fs, dst)
                  /\ fs' = [q \in DOMAIN fs \cup {dst} |->
                              IF q = dst THEN FileNode("partial", NoImg, src, run) ELSE fs[q]]
       ELSE /\ fs' = [q \in DOMAIN fs \cup {dst} |->
                              IF q = dst THEN FileNode("png", [NoImg EXCEPT !.mode = im], src, run) ELSE fs[q]]
            /\ pc' = "return"
            /\ err' = err
    /\ UNCHANGED <<SKIP_EXISTING, run, todo, src, dst, counters, out, status, reports>>

\* line 59: convert_one returned
Converted ==
    /\ pc = "return"
    /\ count_done' = count_done + 1
    /\ pc' = "loop"
    /\ UNCHANGED <<fs, SKIP_EXISTING, run, todo, src, dst, im, err, count_total, count_skipped, count_failed, out, status, reports>>

\* the mutated handler lets the exception end the run
FailedAborts ==
    /\ pc = "except"
    /\ out' = Append(out, Line("FAIL", src, dst, err, <<>>))
    /\ status' = "fatal"
    /\ pc' = "exit"
    /\ UNCHANGED <<fs, SKIP_EXISTING, run, todo, src, dst, im, err, counters, reports>>

\* lines 60-62: convert_one raised
Failed ==
    /\ pc = "except"
    /\ count_failed' = count_failed + 1
    /\ out' = Append(out, Line("FAIL", src, dst, err, <<>>))
    /\ err' = ""
    /\ pc' = "loop"
    /\ UNCHANGED <<fs, SKIP_EXISTING, run, todo, src, dst, im, count_total, count_done, count_skipped, status, reports>>

\* the mutated report is printed while entries are still to come
SummaryEarly ==
    /\ pc = "loop"
    /\ out' = Append(out, Line("SUMMARY", IN_DIR, OUT_DIR, "",
                               <<count_total, count_done, count_skipped, count_failed>>))
    /\ status' = "ok"
    /\ pc' = "exit"
    /\ UNCHANGED <<fs, SKIP_EXISTING, run, todo, src, dst, im, err, counters, reports>>

\* lines 64-70: the walk is over
Summary ==
    /\ pc = "loop"
    /\ todo = {}
    /\ out' = Append(out, Line("SUMMARY", IN_DIR, OUT_DIR, "",
                               <<count_total, count_done, count_skipped, count_failed>>))
    /\ status' = "ok"
    /\ pc' = "exit"
    /\ UNCHANGED <<fs, SKIP_EXISTING, run, todo, src, dst, im, err, counters, reports>>

\* lines 72-73: the script is run again on the filesystem the last run left
Rerun ==
    /\ pc = "exit"
    /\ status = "ok"
    /\ run < MaxRuns
    /\ run' = run + 1
    /\ reports' = Append(reports, out[Len(out)].nums)
    /\ out' = <<>>
    /\ status' = "running"
    /\ pc' = "main"
    /\ src' = <<>>
    /\ dst' = <<>>
    /\ UNCHANGED <<fs, SKIP_EXISTING, todo, im, err, counters>>

Next ==
    \/ MainFatal
    \/ MainStart
    \/ Ignore
    \/ Take
    \/ Skip
    \/ Attempt
    \/ Mkdir
    \/ Open
    \/ Seek
    \/ Mode
    \/ Save
    \/ Converted
    \/ Failed
    \/ Summary
    \/ Rerun

Spec == Init /\ [][Next]_vars

\* the steps of the script itself; Rerun is the user starting it again
Step ==
    \/ MainFatal
    \/ MainStart
    \/ Ignore
    \/ Take
    \/ Skip
    \/ Attempt
    \/ Mkdir
    \/ Open
    \/ Seek
    \/ Mode
    \/ Save
    \/ Converted
    \/ Failed
    \/ Summary

\* the script is sequential and never waits: a step that can be taken is taken
FairSpec == Spec /\ WF_vars(Step)

\* ================================================================= claims
\* states in which no candidate is half processed
AtRest == pc \in {"loop", "exit"}

\* states inside the processing of one candidate
InCandidate == pc \in {"check", "mkdir", "open", "seek", "mode", "save", "return", "except"}

\* every spelling of the two suffixes that occurs
TiffSpellings == {"tif", "TIF", "Tif", "tiff", "TIFF", "TiFf"}

\* the regular files below the input root that carry a TIFF suffix
Candidates ==
    {p \in DOMAIN fs : /\ Len(p) > Len(IN_DIR)
                       /\ SubSeq(p, 1, Len(IN_DIR)) = IN_DIR
                       /\ IsDir(fs, IN_DIR)
                       /\ fs[p].kind = "file"
                       /\ p[Len(p)].ext \in TiffSpellings}

\* d is the mirror of s: the output root, then the directories of s below
\* the input root unchanged, then the file name of s with the suffix png
Mirrors(s, d) ==
    /\ Len(d) - Len(OUT_DIR) = Len(s) - Len(IN_DIR)
    /\ Len(s) > Len(IN_DIR)
    /\ \A k \in 1..Len(OUT_DIR) : d[k] = OUT_DIR[k]
    /\ \A k \in 1..(Len(s) - Len(IN_DIR) - 1) : d[Len(OUT_DIR) + k] = s[Len(IN_DIR) + k]
    /\ d[Len(d)].stem = s[Len(s)].stem
    /\ d[Len(d)].ext = "png"

\* the paths whose node differs between two filesystems
Changed(f, g) ==
    {p \in DOMAIN f \cup DOMAIN g : p \notin DOMAIN f \/ p \notin DOMAIN g \/ f[p] # g[p]}

FailLines == {i \in 1..Len(out) : out[i].tag = "FAIL"}

\* C1: whenever no candidate is half processed (in particular when the
\* summary is printed) converted + skipped + failed = total; while a
\* candidate is being processed total is exactly one ahead; within a run a
\* step raises a counter by at most one and never lowers one.
C1_TallyBalanced ==
    /\ [](AtRest => count_done + count_skipped + count_failed = count_total)
    /\ [](InCandidate => count_done + count_skipped + count_failed = count_total - 1)
    /\ [][pc # "main" =>
            /\ count_total' \in {count_total, count_total + 1}
            /\ count_done' \in {count_done, count_done + 1}
            /\ count_skipped' \in {count_skipped, count_skipped + 1}
            /\ count_failed' \in {count_failed, count_failed + 1}]_vars

C1_Witness ==
    /\ pc = "exit"
    /\ status = "ok"
    /\ count_total = 2
    /\ count_skipped = 1
    /\ count_failed = 1

\* C2: at the end of a run total is the number of regular files below the
\* input root with suffix .tif or .tiff in any spelling; taking any other
\* entry off the walk changes no counter, no file, and starts no conversion.
C2_TotalCountsTiffFiles ==
    /\ [](status = "ok" => count_total = Cardinality(Candidates))
    /\ [][\A p \in todo \ todo' :
            p \notin Candidates =>
                /\ counters' = counters
                /\ fs' = fs
                /\ pc' = "loop"]_vars

C2_Witness ==
    /\ status = "ok"
    /\ count_total = 1
    /\ \E p \in Candidates : p[Len(p)].ext = "TIFF"
    /\ \E p \in DOMAIN fs : Under(p, IN_DIR) /\ fs[p].kind = "dir" /\ p[Len(p)].ext = "tif"

\* C3 as claimed: a candidate is skipped (counted, nothing touched) exactly
\* when skip-existing is on and its destination exists as a file; in every
\* other case the conversion is attempted.
C3_SkipIffDestinationIsFile ==
    [][pc = "check" =>
        IF SKIP_EXISTING /\ IsFile(fs, dst)
        THEN /\ count_skipped' = count_skipped + 1
             /\ fs' = fs
             /\ pc' = "loop"
        ELSE pc' = "mkdir"]_vars

\* C4: a failed conversion adds one to failed and nothing to the other
\* counters, prints one line with the source, the destination and the
\* error, and goes on with the walk: the entries still to come are kept,
\* and the run goes on to print the summary and end successfully.
C4_FailureDoesNotAbort ==
    /\ [][pc = "except" =>
            /\ count_failed' = count_failed + 1
            /\ <<count_total', count_done', count_skipped'>> = <<count_total, count_done, count_skipped>>
            /\ out' = out \o <<[tag |-> "FAIL", src |-> src, dst |-> dst, detail |-> err, nums |-> <<>>]>>
            /\ err # ""
            /\ todo' = todo
            /\ status' = "running"
            /\ pc' = "loop"]_vars
    /\ [](AtRest => Cardinality(FailLines) = (IF status = "fatal" THEN 0 ELSE count_failed))
    /\ (pc = "except") ~> (status = "ok" /\ todo = {} /\ out[Len(out)].tag = "SUMMARY")

C4_Witness ==
    /\ status = "ok"
    /\ count_failed = 1
    /\ count_done = 1
    /\ out[1].tag = "FAIL"

\* C5 as claimed: with skip-existing on, the second run reports skipped =
\* the first run's converted, converted = 0 and failed = 0.
C5_SecondRunAllSkipped ==
    (run = 2 /\ status = "ok" /\ SKIP_EXISTING) =>
        /\ count_skipped = reports[1][2]
        /\ count_done = 0
        /\ count_failed = 0

\* C5 amended: with skip-existing on, a run that follows another converts
\* nothing, skips at least what the run before converted or skipped, and
\* fails at most what the run before failed; when the run before skipped
\* and failed nothing, it skips exactly what that run converted and fails
\* nothing.
C5_SecondRunConvertsNothing ==
    (run >= 2 /\ status = "ok" /\ SKIP_EXISTING) =>
        LET prev == reports[run - 1]
        IN  /\ count_done = 0
            /\ count_skipped >= prev[2] + prev[3]
            /\ count_failed <= prev[4]
            /\ (prev[3] = 0 /\ prev[4] = 0) =>
                    (count_skipped = prev[2] /\ count_failed = 0)

C5_Witness ==
    /\ run = 2
    /\ status = "ok"
    /\ SKIP_EXISTING
    /\ reports[1][2] = 1
    /\ reports[1][4] = 1
    /\ count_skipped = 1
    /\ count_failed = 1

\* C6 as claimed: when the input root is not a directory (missing, or
\* something else than a directory) the run ends in the fatal state before
\* anything is walked: no counter moves, no summary is printed.
C6_FatalUnlessDirectory ==
    (~IsDir(fs, IN_DIR) /\ pc # "main") =>
        /\ pc = "exit"
        /\ status = "fatal"
        /\ \A i \in 1..Len(out) : out[i].tag = "ERROR"

\* C7: the destination of the candidate at hand is the mirror of its
\* source, and a step changes the filesystem only there: a file is written
\* only at that destination, a directory is made only on the way to it,
\* and nothing outside the output root changes.
C7_DestinationMirrorsSource ==
    /\ [](InCandidate => Mirrors(src, dst))
    /\ [][\A p \in Changed(fs, fs') :
            /\ p \in DOMAIN fs'
            /\ SubSeq(p, 1, Len(OUT_DIR)) = OUT_DIR
            /\ Mirrors(src, dst)
            /\ IF fs'[p].kind = "file"
               THEN p = dst
               ELSE Len(p) < Len(dst) /\ SubSeq(dst, 1, Len(p)) = p]_vars

C7_Witness ==
    \E p \in DOMAIN fs :
        /\ Len(p) = Len(OUT_DIR) + 2
        /\ fs[p].kind = "file"
        /\ fs[p].tag = "png"
        /\ fs[p].from[Len(fs[p].from)].ext = "TiFf"

\* C8: a run whose input root exists ends successfully whatever failed;
\* when it has ended the walk is over, the summary is the last line printed
\* and the only one, every line before it is a diagnostic, and it shows
\* the final counters.
C8_SummaryOnceAtEnd ==
    /\ (pc = "exit" /\ Exists(fs, IN_DIR)) => status = "ok"
    /\ status = "ok" =>
        /\ pc = "exit"
        /\ todo = {}
        /\ Len(out) >= 1
        /\ out[Len(out)].tag = "SUMMARY"
        /\ out[Len(out)].nums = <<count_total, count_done, count_skipped, count_failed>>
        /\ \A i \in 1..(Len(out) - 1) : out[i].tag = "FAIL"
    /\ status = "running" => \A i \in 1..Len(out) : out[i].tag = "FAIL"

C8_Witness ==
    /\ status = "ok"
    /\ count_total = 2
    /\ count_failed = 2

\* C9 as claimed, for the seek step: a candidate whose seek(0) raised is
\* never counted as converted.
C9_SeekErrorFails ==
    pc = "return" => fs[src].img.seekOk

\* C9 amended: an error raised by the directory creation, the open, the
\* colour-mode conversion or the encode ends convert_one at once and the
\* candidate is counted in failed, once, and not in converted; an error
\* raised by seek(0) is swallowed and the conversion goes on.
C9_StepErrorFailsOnce ==
    /\ [][(\/ pc = "mkdir" /\ \E q \in Prefixes(Parent(dst)) : q \in DOMAIN fs /\ fs[q].kind # "dir"
           \/ pc = "open" /\ fs[src].img.fault = "open"
           \/ pc = "mode" /\ im \notin {"RGB", "RGBA"} /\ fs[src].img.fault = "convert"
           \/ pc = "save" /\ fs[src].img.fault = "save")
          => (pc' = "except" /\ err' # "" /\ counters' = counters)]_vars
    /\ [][pc = "except" =>
            /\ count_failed' = count_failed + 1
            /\ count_done' = count_done
            /\ pc' = "loop"]_vars
    /\ [][pc = "seek" => (pc' = "mode" /\ counters' = counters)]_vars

C9_Witness ==
    /\ pc = "return"
    /\ ~fs[src].img.seekOk
    /\ count_failed = 1

\* two candidates of the input tree share the destination p
Collide(p) ==
    \E s \in Candidates : \E t \in Candidates : s # t /\ Mirrors(s, p) /\ Mirrors(t, p)

\* C10 as claimed: when two candidates share a destination, the candidate
\* whose conversion left the file found there in this run is counted as
\* converted (so no diagnostic names it).
C10_LeavingAFileMeansConverted ==
    (SKIP_EXISTING /\ AtRest) =>
        \A p \in DOMAIN fs :
            (fs[p].kind = "file" /\ fs[p].gen = run /\ Collide(p)) =>
                \A i \in FailLines : out[i].src # fs[p].from

\* C10 amended: with skip-existing on, a conversion writes only where
\* nothing exists, so nothing is overwritten; a candidate whose destination
\* was left by this run is counted as skipped and touches nothing; the file
\* a run leaves is a complete PNG when the candidate that left it is
\* counted as converted and a partial file when its encode failed and it is
\* counted as failed.
C10_NoOverwriteWithinRun ==
    /\ [][SKIP_EXISTING => \A p \in Changed(fs, fs') : p \notin DOMAIN fs]_vars
    /\ [][(SKIP_EXISTING /\ pc = "check" /\ dst \in DOMAIN fs /\ fs[dst].gen = run) =>
            /\ count_skipped' = count_skipped + 1
            /\ <<count_total', count_done', count_failed'>> = <<count_total, count_done, count_failed>>
            /\ fs' = fs
            /\ pc' = "loop"]_vars
    /\ []((SKIP_EXISTING /\ AtRest) =>
            \A p \in DOMAIN fs :
                (fs[p].kind = "file" /\ fs[p].gen = run) =>
                    /\ fs[p].tag \in {"png", "partial"}
                    /\ fs[p].tag = "png" <=> (\A i \in FailLines : out[i].src # fs[p].from)
                    /\ fs[p].tag = "partial" <=>
                            (\E i \in FailLines : out[i].src = fs[p].from /\ out[i].dst = p /\ out[i].detail = "save"))

C10_Witness ==
    /\ SKIP_EXISTING
    /\ pc = "loop"
    /\ count_skipped = 1
    /\ count_failed = 1
    /\ dst \in DOMAIN fs
    /\ fs[dst].tag = "partial"
    /\ fs[dst].gen = run
    /\ Collide(dst)

====
